---------------------------- MODULE Spec2Model ----------------------------
(***************************************************************************)
(* Model of wizard/stock_movement_report_wizard.py: the transient model    *)
(* stock.movement.report.wizard.  A wizard record is filled in, saved      *)
(* (the _check_dates constraint), and action_generate_report walks the     *)
(* product x month matrix, reading the database through the aggregation    *)
(* queries and writing cells into an in-memory worksheet, before storing   *)
(* the file on the wizard.                                                 *)
(*                                                                         *)
(* Dates are triples <<year, month, day>> of the proleptic Gregorian       *)
(* calendar.  Quantities and prices are integers.  A NULL foreign key is   *)
(* the id 0.                                                               *)
(***************************************************************************)
EXTENDS Integers, Sequences, FiniteSets

VARIABLES
    wizard,         \* the wizard record's fields
    db,             \* the tables the queries read
    xlsxwriter,     \* whether `import xlsxwriter` succeeded
    pc,             \* position of the request
    products,       \* action_generate_report: products
    months,         \* action_generate_report: months
    location_ids,   \* action_generate_report: location_ids
    worksheet,      \* the cells written so far, in write order
    data_row,       \* _write_excel_content: data_row
    col,            \* _write_excel_content: col
    month_idx,      \* position of `for month in months` (months done)
    yearly_totals,  \* _write_excel_content: yearly_totals of the current product
    raised,         \* the exception that ended the request, or NoError
    returned        \* the action returned to the client, or NoAction

vars == <<wizard, db, xlsxwriter, pc, products, months, location_ids,
          worksheet, data_row, col, month_idx, yearly_totals, raised, returned>>

(***************************************************************************)
(* Bounds of the model.                                                    *)
(***************************************************************************)
BaseYear == 2023
NumYears == 2
MaxMoves == 2
MaxLines == 2
MaxBoms == 2

Years == BaseYear .. (BaseYear + NumYears - 1)

(***************************************************************************)
(* datetime.date, dateutil.relativedelta, datetime.timedelta               *)
(***************************************************************************)
IsLeap(y) == (y % 4 = 0 /\ y % 100 # 0) \/ y % 400 = 0

DaysInMonth(y, m) ==
    IF m = 2 THEN (IF IsLeap(y) THEN 29 ELSE 28)
    ELSE IF m \in {4, 6, 9, 11} THEN 30 ELSE 31

Min(a, b) == IF a <= b THEN a ELSE b

\* a < b on dates
DateLT(a, b) ==
    \/ a[1] < b[1]
    \/ a[1] = b[1] /\ a[2] < b[2]
    \/ a[1] = b[1] /\ a[2] = b[2] /\ a[3] < b[3]

DateLE(a, b) == a = b \/ DateLT(a, b)

\* a mutant: the day of the month is kept
KeepDay(d) == d

\* date.replace(day=1)
ReplaceDay1(d) == <<d[1], d[2], 1>>

\* d + relativedelta(months=1): the month after, the day clipped to its length
AddOneMonth(d) ==
    LET y == IF d[2] = 12 THEN d[1] + 1 ELSE d[1]
        m == IF d[2] = 12 THEN 1 ELSE d[2] + 1
    IN  <<y, m, Min(d[3], DaysInMonth(y, m))>>

\* d - timedelta(days=1)
SubOneDay(d) ==
    IF d[3] > 1 THEN <<d[1], d[2], d[3] - 1>>
    ELSE IF d[2] > 1 THEN <<d[1], d[2] - 1, DaysInMonth(d[1], d[2] - 1)>>
    ELSE <<d[1] - 1, 12, 31>>

\* current.strftime('%B %Y')
MonthNames ==
    <<"January", "February", "March", "April", "May", "June", "July",
      "August", "September", "October", "November", "December">>

MonthLabel(d) == <<MonthNames[d[2]], d[1]>>

(***************************************************************************)
(* Sequence helpers                                                        *)
(***************************************************************************)
RECURSIVE SumSeq(_)
SumSeq(s) == IF s = <<>> THEN 0 ELSE Head(s) + SumSeq(Tail(s))

\* SUM(expr) over the rows of a table, NULL (no row) coalesced to 0
Range(s) == {s[i] : i \in 1 .. Len(s)}

(***************************************************************************)
(* _check_dates                                                            *)
(***************************************************************************)
\* TRUE when the constraint raises
_check_dates(w) == DateLT(w.date_to, w.date_from)

(***************************************************************************)
(* _get_months_in_range                                                    *)
(***************************************************************************)
MonthBucket(current) ==
    [date  |-> current,
     name  |-> MonthLabel(current),
     year  |-> current[1],
     month |-> current[2],
     start |-> current,
     end   |-> SubOneDay(AddOneMonth(current))]

\* the advance of the loop variable: current + relativedelta(months=1)
NextCurrent(current) == AddOneMonth(current)

\* a mutant: the loop stops before the month of date_to
WhileCurrentBeforeEnd(current, end) == DateLT(current, end)

\* while current <= end
WhileCurrent(current, end) == DateLE(current, end)

RECURSIVE MonthsLoop(_, _)
MonthsLoop(current, end) ==
    IF WhileCurrent(current, end)
    THEN <<MonthBucket(current)>> \o MonthsLoop(NextCurrent(current), end)
    ELSE <<>>

_get_months_in_range(w) ==
    MonthsLoop(ReplaceDay1(w.date_from), ReplaceDay1(w.date_to))

(***************************************************************************)
(* The database.  db is a record of tables:                                *)
(*   product_product     set of [id, name, product_tmpl_id, type,          *)
(*                       categ_id, uom_id]  (type, categ_id, uom_id and    *)
(*                       name are the template's, shared by its variants;  *)
(*                       name is its rank in the collation order)          *)
(*   product_category    set of [id, parent_id]                            *)
(*   stock_location      set of [id, usage, warehouse_id]                  *)
(*   uom_uom             set of [id, factor_inv]: one unit of the uom is   *)
(*                       factor_inv reference units (factor = 1/factor_inv)*)
(*   mrp_bom             sequence of [id, type, product_tmpl_id,           *)
(*                       product_id]                                       *)
(*   mrp_bom_line        sequence of [bom_id, product_id, product_qty,     *)
(*                       product_uom_id]                                   *)
(*   stock_move          sequence of [product_id, state, date,             *)
(*                       location_id, location_dest_id, product_qty,       *)
(*                       price_unit, purchase_line_id]                     *)
(*   purchase_order_line sequence of [id, product_id, state, date_approve, *)
(*                       qty_received, price_unit, product_uom_id]         *)
(*   sale_order_line     sequence of [product_id, state, date_order,       *)
(*                       qty_delivered, price_unit, product_uom_id]        *)
(*   pos_order_line      sequence of [product_id, state, date_order, qty,  *)
(*                       price_subtotal_incl]                              *)
(* Order lines carry the state and date of their order (the JOIN).         *)
(***************************************************************************)
Row(table, id) == CHOOSE r \in table : r.id = id

\* uom: quantity / from.factor * to.factor
ConvertUom(d, qty, from_uom, to_uom) ==
    (qty * Row(d.uom_uom, from_uom).factor_inv) \div Row(d.uom_uom, to_uom).factor_inv

(***************************************************************************)
(* _get_products                                                           *)
(***************************************************************************)
RECURSIVE Ancestors(_, _)
\* the category and its parents: the categories c is a child_of
Ancestors(d, c) ==
    IF c = 0 THEN {}
    ELSE {c} \cup Ancestors(d, Row(d.product_category, c).parent_id)

\* search(domain)
ProductDomain(w, d, p) ==
    /\ p.type = "consu"
    /\ (w.product_ids # {} => p.id \in w.product_ids)
    /\ (w.category_ids # {} => Ancestors(d, p.categ_id) \cap w.category_ids # {})

\* order='name' (ties by id)
RECURSIVE OrderByName(_)
OrderByName(S) ==
    IF S = {} THEN <<>>
    ELSE LET first == CHOOSE p \in S : \A q \in S :
                          \/ p.name < q.name
                          \/ p.name = q.name /\ p.id <= q.id
         IN  <<first>> \o OrderByName(S \ {first})

\* a mutant: only the templates of phantom BoMs of no particular variant
PhantomTemplatesOfTemplateBoms(d, found) ==
    {b.product_tmpl_id : b \in
        {b \in Range(d.mrp_bom) :
            /\ b.type = "phantom"
            /\ b.product_id = 0
            /\ b.product_tmpl_id \in {p.product_tmpl_id : p \in Range(found)}}}

\* the templates, among those of the found products, that have a phantom BoM
PhantomTemplates(d, found) ==
    {b.product_tmpl_id : b \in
        {b \in Range(d.mrp_bom) :
            /\ b.type = "phantom"
            /\ b.product_tmpl_id \in {p.product_tmpl_id : p \in Range(found)}}}

\* products.filtered(lambda p: p.product_tmpl_id.id not in phantom ids)
RECURSIVE Filtered(_, _)
Filtered(s, tmpl_ids) ==
    IF s = <<>> THEN <<>>
    ELSE (IF Head(s).product_tmpl_id \notin tmpl_ids THEN <<Head(s)>> ELSE <<>>)
         \o Filtered(Tail(s), tmpl_ids)

_get_products(w, d) ==
    LET found == OrderByName({p \in d.product_product : ProductDomain(w, d, p)})
    IN  IF found # <<>>
        THEN LET phantom_bom_product_tmpl_ids == PhantomTemplates(d, found)
             IN  IF phantom_bom_product_tmpl_ids # {}
                 THEN Filtered(found, phantom_bom_product_tmpl_ids)
                 ELSE found
        ELSE found

(***************************************************************************)
(* _get_location_ids                                                       *)
(***************************************************************************)
_get_location_ids(w, d) ==
    IF w.warehouse_ids # {}
    THEN {l.id : l \in {l \in d.stock_location :
                    l.usage = "internal" /\ l.warehouse_id \in w.warehouse_ids}}
    ELSE {l.id : l \in {l \in d.stock_location : l.usage = "internal"}}

(***************************************************************************)
(* _get_stock_at_date                                                      *)
(***************************************************************************)
\* the CASE of the SELECT
StockCase(sm, locs) ==
    IF sm.location_dest_id \in locs THEN sm.product_qty
    ELSE IF sm.location_id \in locs THEN 0 - sm.product_qty
    ELSE 0

\* the WHERE of the SELECT
StockWhere(sm, product_id, date, locs) ==
    /\ sm.product_id = product_id
    /\ sm.state = "done"
    /\ DateLE(sm.date, date)
    /\ (sm.location_id \in locs \/ sm.location_dest_id \in locs)

_get_stock_at_date(d, product_id, date, locs) ==
    SumSeq([i \in 1 .. Len(d.stock_move) |->
        IF StockWhere(d.stock_move[i], product_id, date, locs)
        THEN StockCase(d.stock_move[i], locs) ELSE 0])

(***************************************************************************)
(* _get_phantom_bom_components                                             *)
(***************************************************************************)
\* a mutant: the quantity is added to the one the kit already has
DictAdd(f, k, v) ==
    [x \in DOMAIN f \cup {k} |->
        IF x = k THEN (IF k \in DOMAIN f THEN f[k] + v ELSE v) ELSE f[x]]

\* result[k] = v on a dict
DictSet(f, k, v) == [x \in DOMAIN f \cup {k} |-> IF x = k THEN v ELSE f[x]]

EmptyDict == [x \in {} |-> 0]

\* a mutant: the line's quantity is taken as it is, whatever its unit
ComponentQtyUnconverted(d, line) == line.product_qty

\* line.product_qty, converted to the component's uom when the line's differs
ComponentQty(d, line) ==
    LET uom_id == Row(d.product_product, line.product_id).uom_id
    IN  IF line.product_uom_id # uom_id
        THEN ConvertUom(d, line.product_qty, line.product_uom_id, uom_id)
        ELSE line.product_qty

\* bom.product_tmpl_id.product_variant_ids
ProductVariantIds(d, tmpl_id) ==
    {p.id : p \in {p \in d.product_product : p.product_tmpl_id = tmpl_id}}

RECURSIVE SetAll(_, _, _)
\* result[k] = v for every k of ks
SetAll(f, ks, v) ==
    IF ks = {} THEN f
    ELSE LET k == CHOOSE k \in ks : TRUE
         IN  SetAll(DictSet(f, k, v), ks \ {k}, v)

\* one turn of `for line in bom_lines`
BomLineStep(d, result, line) ==
    LET bom == Row(Range(d.mrp_bom), line.bom_id)
    IN  IF bom.type = "phantom"
        THEN IF bom.product_id # 0
             THEN DictSet(result, bom.product_id, ComponentQty(d, line))
             ELSE SetAll(result, ProductVariantIds(d, bom.product_tmpl_id),
                         ComponentQty(d, line))
        ELSE result

RECURSIVE BomLinesLoop(_, _, _, _)
BomLinesLoop(d, result, lines, product_id) ==
    IF lines = <<>> THEN result
    ELSE BomLinesLoop(d,
            IF Head(lines).product_id = product_id
            THEN BomLineStep(d, result, Head(lines)) ELSE result,
            Tail(lines), product_id)

_get_phantom_bom_components(d, product_id) ==
    BomLinesLoop(d, EmptyDict, d.mrp_bom_line, product_id)

(***************************************************************************)
(* _get_stock_moves_data                                                   *)
(***************************************************************************)
\* a mutant: the window has no start
InWindowNoStart(date, date_start, date_end) == DateLE(date, date_end)

\* date >= date_start AND date <= date_end
InWindow(date, date_start, date_end) ==
    DateLE(date_start, date) /\ DateLE(date, date_end)

\* the unit price of an incoming move: its purchase line's, else its own
MovePrice(d, sm) ==
    IF sm.purchase_line_id # 0
       /\ \E pol \in Range(d.purchase_order_line) : pol.id = sm.purchase_line_id
    THEN Row(Range(d.purchase_order_line), sm.purchase_line_id).price_unit
    ELSE sm.price_unit

IncomingQuery(d, product_id, date_start, date_end, locs) ==
    LET hit(sm) == /\ sm.product_id = product_id
                   /\ sm.state = "done"
                   /\ InWindow(sm.date, date_start, date_end)
                   /\ sm.location_dest_id \in locs
                   /\ sm.location_id \notin locs
        t == d.stock_move
    IN  [qty   |-> SumSeq([i \in 1 .. Len(t) |->
                        IF hit(t[i]) THEN t[i].product_qty ELSE 0]),
         value |-> SumSeq([i \in 1 .. Len(t) |->
                        IF hit(t[i]) THEN t[i].product_qty * MovePrice(d, t[i]) ELSE 0])]

OutgoingQuery(d, product_id, date_start, date_end, locs) ==
    LET hit(sm) == /\ sm.product_id = product_id
                   /\ sm.state = "done"
                   /\ InWindow(sm.date, date_start, date_end)
                   /\ sm.location_id \in locs
                   /\ sm.location_dest_id \notin locs
        t == d.stock_move
    IN  [qty   |-> SumSeq([i \in 1 .. Len(t) |->
                        IF hit(t[i]) THEN t[i].product_qty ELSE 0]),
         value |-> SumSeq([i \in 1 .. Len(t) |->
                        IF hit(t[i]) THEN t[i].product_qty * t[i].price_unit ELSE 0])]

\* the uom of the product's template (the JOINs to uom_uom prod_uom)
ProductUom(d, product_id) == Row(d.product_product, product_id).uom_id

PurchaseQuery(d, product_id, date_start, date_end) ==
    LET hit(pol) == /\ pol.product_id = product_id
                    /\ pol.state \in {"purchase", "done"}
                    /\ InWindow(pol.date_approve, date_start, date_end)
        t == d.purchase_order_line
    IN  [qty   |-> SumSeq([i \in 1 .. Len(t) |->
                        IF hit(t[i])
                        THEN ConvertUom(d, t[i].qty_received, t[i].product_uom_id,
                                        ProductUom(d, product_id))
                        ELSE 0]),
         value |-> SumSeq([i \in 1 .. Len(t) |->
                        IF hit(t[i]) THEN t[i].qty_received * t[i].price_unit ELSE 0])]

\* the sale_order_line query, run for the product and again for each kit
SaleQuery(d, product_id, date_start, date_end) ==
    LET hit(sol) == /\ sol.product_id = product_id
                    /\ sol.state \in {"sale", "done"}
                    /\ InWindow(sol.date_order, date_start, date_end)
        t == d.sale_order_line
    IN  [qty   |-> SumSeq([i \in 1 .. Len(t) |->
                        IF hit(t[i])
                        THEN ConvertUom(d, t[i].qty_delivered, t[i].product_uom_id,
                                        ProductUom(d, product_id))
                        ELSE 0]),
         value |-> SumSeq([i \in 1 .. Len(t) |->
                        IF hit(t[i]) THEN t[i].qty_delivered * t[i].price_unit ELSE 0])]

\* the pos_order_line query, run for the product and again for each kit
PosQuery(d, product_id, date_start, date_end) ==
    LET hit(pol) == /\ pol.product_id = product_id
                    /\ pol.state \in {"paid", "done", "invoiced"}
                    /\ InWindow(pol.date_order, date_start, date_end)
        t == d.pos_order_line
    IN  [qty   |-> SumSeq([i \in 1 .. Len(t) |->
                        IF hit(t[i]) THEN t[i].qty ELSE 0]),
         value |-> SumSeq([i \in 1 .. Len(t) |->
                        IF hit(t[i]) THEN t[i].price_subtotal_incl ELSE 0])]

RECURSIVE KitSalesLoopUnscaled(_, _, _, _, _)
\* a mutant: the kit's sales are added without the multiplier
KitSalesLoopUnscaled(d, acc, kits, date_start, date_end) ==
    IF DOMAIN kits = {} THEN acc
    ELSE LET k == CHOOSE k \in DOMAIN kits : TRUE
             result == SaleQuery(d, k, date_start, date_end)
             rest == [x \in DOMAIN kits \ {k} |-> kits[x]]
         IN  KitSalesLoopUnscaled(d,
                IF result.qty # 0
                THEN [qty   |-> acc.qty + result.qty,
                      value |-> acc.value + result.value]
                ELSE acc,
                rest, date_start, date_end)

RECURSIVE KitSalesLoop(_, _, _, _, _)
\* for kit_product_id, bom_qty in phantom_bom_data.items(): the sales added
KitSalesLoop(d, acc, kits, date_start, date_end) ==
    IF DOMAIN kits = {} THEN acc
    ELSE LET k == CHOOSE k \in DOMAIN kits : TRUE
             result == SaleQuery(d, k, date_start, date_end)
             rest == [x \in DOMAIN kits \ {k} |-> kits[x]]
         IN  KitSalesLoop(d,
                IF result.qty # 0
                THEN [qty   |-> acc.qty + result.qty * kits[k],
                      value |-> acc.value + result.value * kits[k]]
                ELSE acc,
                rest, date_start, date_end)

RECURSIVE KitPosLoop(_, _, _, _, _)
\* for kit_product_id, bom_qty in phantom_bom_data.items(): the POS sales added
KitPosLoop(d, acc, kits, date_start, date_end) ==
    IF DOMAIN kits = {} THEN acc
    ELSE LET k == CHOOSE k \in DOMAIN kits : TRUE
             result == PosQuery(d, k, date_start, date_end)
             rest == [x \in DOMAIN kits \ {k} |-> kits[x]]
         IN  KitPosLoop(d,
                IF result.qty # 0
                THEN [qty   |-> acc.qty + result.qty * kits[k],
                      value |-> acc.value + result.value * kits[k]]
                ELSE acc,
                rest, date_start, date_end)

Zero == [qty |-> 0, value |-> 0]

\* the purchase figures: `if self.include_purchases:`
PurchaseData(w, d, product_id, date_start, date_end) ==
    IF w.include_purchases
    THEN PurchaseQuery(d, product_id, date_start, date_end)
    ELSE Zero

\* the sales figures: `if self.include_sales:`
SaleData(w, d, product_id, date_start, date_end) ==
    IF w.include_sales
    THEN KitSalesLoop(d, SaleQuery(d, product_id, date_start, date_end),
                      _get_phantom_bom_components(d, product_id),
                      date_start, date_end)
    ELSE Zero

\* a mutant: the point-of-sale figures follow the sales toggle
PosDataUnderSalesToggle(w, d, product_id, date_start, date_end) ==
    IF w.include_sales
    THEN KitPosLoop(d, PosQuery(d, product_id, date_start, date_end),
                    _get_phantom_bom_components(d, product_id),
                    date_start, date_end)
    ELSE Zero

\* the point-of-sale figures: `if self.include_pos:`
PosData(w, d, product_id, date_start, date_end) ==
    IF w.include_pos
    THEN KitPosLoop(d, PosQuery(d, product_id, date_start, date_end),
                    _get_phantom_bom_components(d, product_id),
                    date_start, date_end)
    ELSE Zero

_get_stock_moves_data(w, d, product_id, date_start, date_end, locs) ==
    LET in_   == IncomingQuery(d, product_id, date_start, date_end, locs)
        out   == OutgoingQuery(d, product_id, date_start, date_end, locs)
        purch == PurchaseData(w, d, product_id, date_start, date_end)
        sale  == SaleData(w, d, product_id, date_start, date_end)
        pos   == PosData(w, d, product_id, date_start, date_end)
    IN  [qty_in         |-> in_.qty,
         qty_out        |-> out.qty,
         value_in       |-> in_.value,
         value_out      |-> out.value,
         purchase_qty   |-> purch.qty,
         purchase_value |-> purch.value,
         sale_qty       |-> sale.qty,
         sale_value     |-> sale.value,
         pos_qty        |-> pos.qty,
         pos_value      |-> pos.value]

(***************************************************************************)
(* _write_excel_content: layout                                            *)
(***************************************************************************)
month_columns ==
    <<<<"opening_qty", "Opening\nStock", "integer">>,
      <<"purchase_qty", "Purchased\nQty", "integer">>,
      <<"purchase_value", "Purchase\nValue", "currency">>,
      <<"sale_qty", "Sold Qty\n(Sales)", "integer">>,
      <<"sale_value", "Sales\nValue", "currency">>,
      <<"pos_qty", "Sold Qty\n(POS)", "integer">>,
      <<"pos_value", "POS\nValue", "currency">>,
      <<"closing_qty", "Closing\nStock", "integer">>>>

cols_per_month == Len(month_columns)

year_columns ==
    <<<<"total_purchase_qty", "Total\nPurchased", "integer">>,
      <<"total_purchase_value", "Total\nPurchase Value", "currency">>,
      <<"total_sale_qty", "Total\nSold (Sales)", "integer">>,
      <<"total_sale_value", "Total\nSales Value", "currency">>,
      <<"total_pos_qty", "Total\nSold (POS)", "integer">>,
      <<"total_pos_value", "Total\nPOS Value", "currency">>>>

RECURSIVE SortedSeq(_)
\* sorted(set(...)) of integers
SortedSeq(S) ==
    IF S = {} THEN <<>>
    ELSE LET lo == CHOOSE x \in S : \A y \in S : x <= y
         IN  <<lo>> \o SortedSeq(S \ {lo})

\* years_in_range = sorted(set(m['year'] for m in months))
YearsInRange(ms) == SortedSeq({ms[i].year : i \in 1 .. Len(ms)})

\* worksheet.write(row, col, value, format)
Write(row, c, value, format) ==
    [row |-> row, col |-> c, end_col |-> c, value |-> value, format |-> format]

\* worksheet.merge_range(row, col, row, end_col, value, format)
MergeRange(row, c, end_col, value, format) ==
    [row |-> row, col |-> c, end_col |-> end_col, value |-> value, format |-> format]

\* rows 0 to 2: the title, the month and year headers, the sub-headers
HeaderWrites(w, ms) ==
    LET ys == YearsInRange(ms)
        total_month_cols == Len(ms) * cols_per_month
        total_year_cols == Len(ys) * Len(year_columns)
        total_cols == 1 + total_month_cols + total_year_cols
    IN  <<MergeRange(0, 0, total_cols - 1,
                     <<"Stock Movement Report (", w.date_from, " to ", w.date_to, ")">>,
                     "title"),
          Write(1, 0, <<"Product">>, "header_month"),
          Write(2, 0, <<"Variant">>, "header_col")>>
        \o [i \in 1 .. Len(ms) |->
               MergeRange(1, 1 + (i - 1) * cols_per_month, i * cols_per_month,
                          ms[i].name, "header_month")]
        \o [j \in 1 .. Len(ys) |->
               MergeRange(1, 1 + total_month_cols + (j - 1) * Len(year_columns),
                          total_month_cols + j * Len(year_columns),
                          <<"Year ", ys[j], " Total">>, "header_year")]
        \o [k \in 1 .. total_month_cols |->
               Write(2, k, <<month_columns[((k - 1) % cols_per_month) + 1][2]>>,
                     "header_col")]
        \o [k \in 1 .. total_year_cols |->
               Write(2, total_month_cols + k,
                     <<year_columns[((k - 1) % Len(year_columns)) + 1][2]>>,
                     "header_year_col")]

(***************************************************************************)
(* _write_excel_content: one product's row                                 *)
(***************************************************************************)
ZeroTotals ==
    [total_purchase_qty |-> 0, total_purchase_value |-> 0,
     total_sale_qty |-> 0, total_sale_value |-> 0,
     total_pos_qty |-> 0, total_pos_value |-> 0]

\* a mutant: the opening stock taken at the month's first day
OpeningDateAtStart(month) == month.start

\* the date whose stock opens the month
OpeningDate(month) == SubOneDay(month.start)

\* a mutant: the closing stock taken at the month's first day
ClosingDateAtStart(month) == month.start

\* the date whose stock closes the month
ClosingDate(month) == month.end

\* month_data of one product and month
MonthData(w, d, product, month, locs) ==
    LET opening_qty == _get_stock_at_date(d, product.id, OpeningDate(month), locs)
        move_data == _get_stock_moves_data(w, d, product.id, month.start,
                                           month.end, locs)
        closing_qty == _get_stock_at_date(d, product.id, ClosingDate(month), locs)
    IN  [opening_qty    |-> opening_qty,
         purchase_qty   |-> move_data.purchase_qty,
         purchase_value |-> move_data.purchase_value,
         sale_qty       |-> move_data.sale_qty,
         sale_value     |-> move_data.sale_value,
         pos_qty        |-> move_data.pos_qty,
         pos_value      |-> move_data.pos_value,
         closing_qty    |-> closing_qty]

\* a mutant: the cells of a month are written in the reverse order of month_columns
MonthWritesReversed(row, c, month_data) ==
    [k \in 1 .. Len(month_columns) |->
        Write(row, c + k - 1,
              month_data[month_columns[Len(month_columns) + 1 - k][1]], "integer")]

\* `for col_def in month_columns`: the eight cells of a month, from column c
MonthWrites(row, c, month_data) ==
    [k \in 1 .. Len(month_columns) |->
        Write(row, c + k - 1, month_data[month_columns[k][1]],
              IF month_columns[k][3] = "currency" THEN "currency"
              ELSE IF month_columns[k][3] = "integer" THEN "integer"
              ELSE "number")]

\* a mutant: the month's figures are added to every year's totals
AccumulateEveryYear(yt, year, month_data) ==
    [y \in DOMAIN yt |->
        [total_purchase_qty   |-> yt[y].total_purchase_qty + month_data.purchase_qty,
         total_purchase_value |-> yt[y].total_purchase_value + month_data.purchase_value,
         total_sale_qty       |-> yt[y].total_sale_qty + month_data.sale_qty,
         total_sale_value     |-> yt[y].total_sale_value + month_data.sale_value,
         total_pos_qty        |-> yt[y].total_pos_qty + month_data.pos_qty,
         total_pos_value      |-> yt[y].total_pos_value + month_data.pos_value]]

\* yearly_totals[year][...] += move_data[...]
Accumulate(yt, year, month_data) ==
    [yt EXCEPT ![year] =
        [total_purchase_qty   |-> @.total_purchase_qty + month_data.purchase_qty,
         total_purchase_value |-> @.total_purchase_value + month_data.purchase_value,
         total_sale_qty       |-> @.total_sale_qty + month_data.sale_qty,
         total_sale_value     |-> @.total_sale_value + month_data.sale_value,
         total_pos_qty        |-> @.total_pos_qty + month_data.pos_qty,
         total_pos_value      |-> @.total_pos_value + month_data.pos_value]]

\* `for year in years_in_range: for col_def in year_columns`, from column c
YearWrites(row, c, ys, yt) ==
    [k \in 1 .. Len(ys) * Len(year_columns) |->
        LET year == ys[((k - 1) \div Len(year_columns)) + 1]
            col_def == year_columns[((k - 1) % Len(year_columns)) + 1]
        IN  Write(row, c + k - 1, yt[year][col_def[1]],
                  IF col_def[3] = "currency" THEN "year_currency" ELSE "year_number")]

(***************************************************************************)
(* The request                                                             *)
(***************************************************************************)
NoError == "none"
NoFile == <<>>
NoName == <<>>
NoAction == [type |-> "none"]

\* the file stored by an earlier request on the same wizard (its sheet is not
\* modelled)
PriorFile == <<"xlsx", <<>>>>
PriorName == <<"Stock_Movement_Report_", <<2022, 1, 1>>, "_", <<2022, 12, 31>>, ".xlsx">>

\* base64.b64encode(output.read()) of the closed workbook
FileData(ws) == <<"xlsx", ws>>

\* f'Stock_Movement_Report_{self.date_from}_{self.date_to}.xlsx'
FileName(w) == <<"Stock_Movement_Report_", w.date_from, "_", w.date_to, ".xlsx">>

\* a mutant: the check of the stock locations is missing
ValidationErrorNoLocationCheck(w, d, lib) ==
    IF ~lib THEN "xlsxwriter library is required. Please install it using: pip install xlsxwriter"
    ELSE IF _get_products(w, d) = <<>> THEN "No products found with the given criteria."
    ELSE IF _get_months_in_range(w) = <<>> THEN "No months found in the selected date range."
    ELSE NoError

\* the first validation of action_generate_report that fails, or NoError
ValidationError(w, d, lib) ==
    IF ~lib THEN "xlsxwriter library is required. Please install it using: pip install xlsxwriter"
    ELSE IF _get_products(w, d) = <<>> THEN "No products found with the given criteria."
    ELSE IF _get_months_in_range(w) = <<>> THEN "No months found in the selected date range."
    ELSE IF _get_location_ids(w, d) = {} THEN "No stock locations found."
    ELSE NoError

\* The record is saved: the constraint _check_dates runs, and rejects it or not.
Save ==
    /\ pc = "form"
    /\ IF _check_dates(wizard)
       THEN /\ raised' = "Start Date must be before End Date."
            /\ pc' = "rejected"
       ELSE /\ raised' = raised
            /\ pc' = "saved"
    /\ UNCHANGED <<wizard, db, xlsxwriter, products, months, location_ids,
                   worksheet, data_row, col, month_idx, yearly_totals, returned>>

\* action_generate_report up to the first product: the validations, the workbook,
\* and rows 0 to 2 of _write_excel_content.
Begin ==
    /\ pc = "saved"
    /\ LET err == ValidationError(wizard, db, xlsxwriter)
       IN  IF err # NoError
           THEN /\ raised' = err
                /\ pc' = "rejected"
                /\ UNCHANGED <<products, months, location_ids, worksheet, data_row>>
           ELSE /\ products' = _get_products(wizard, db)
                /\ months' = _get_months_in_range(wizard)
                /\ location_ids' = _get_location_ids(wizard, db)
                /\ worksheet' = HeaderWrites(wizard, _get_months_in_range(wizard))
                /\ data_row' = 3
                /\ pc' = "products"
                /\ raised' = raised
    /\ UNCHANGED <<wizard, db, xlsxwriter, col, month_idx, yearly_totals, returned>>

\* `for product in products`: the name cell, col and yearly_totals
BeginProduct ==
    /\ pc = "products"
    /\ data_row - 3 < Len(products)
    /\ worksheet' = Append(worksheet,
            Write(data_row, 0, <<"name", products[data_row - 2].id>>, "product"))
    /\ col' = 1
    /\ yearly_totals' = [y \in Range(YearsInRange(months)) |-> ZeroTotals]
    /\ month_idx' = 0
    /\ pc' = "months"
    /\ UNCHANGED <<wizard, db, xlsxwriter, products, months, location_ids,
                   data_row, raised, returned>>

\* a mutant: reading the ledger consumes its first move
TablesAfterSelectsConsumed(d) ==
    [d EXCEPT !.stock_move = IF @ = <<>> THEN @ ELSE Tail(@)]

\* the tables after the queries of a month: every statement run on the cursor
\* by _get_stock_at_date and _get_stock_moves_data is a SELECT
TablesAfterSelects(d) == d

\* one turn of `for month in months`
WriteMonth ==
    /\ pc = "months"
    /\ month_idx < Len(months)
    /\ LET month == months[month_idx + 1]
           month_data == MonthData(wizard, db, products[data_row - 2], month,
                                   location_ids)
       IN  /\ worksheet' = worksheet \o MonthWrites(data_row, col, month_data)
           /\ col' = col + Len(month_columns)
           /\ yearly_totals' = Accumulate(yearly_totals, month.year, month_data)
    /\ month_idx' = month_idx + 1
    /\ db' = TablesAfterSelects(db)
    /\ UNCHANGED <<wizard, xlsxwriter, pc, products, months, location_ids,
                   data_row, raised, returned>>

\* the yearly totals of the product, and data_row += 1
WriteYearlyTotals ==
    /\ pc = "months"
    /\ month_idx = Len(months)
    /\ LET ys == YearsInRange(months)
       IN  /\ worksheet' = worksheet \o YearWrites(data_row, col, ys, yearly_totals)
           /\ col' = col + Len(ys) * Len(year_columns)
    /\ data_row' = data_row + 1
    /\ pc' = "products"
    /\ UNCHANGED <<wizard, db, xlsxwriter, products, months, location_ids,
                   month_idx, yearly_totals, raised, returned>>

\* the fields written by self.write({...})
StoredFields(w, ws) ==
    [w EXCEPT !.excel_file = FileData(ws), !.file_name = FileName(w)]

\* after the last product: workbook.close(), self.write({...}), the download action
SaveFile ==
    /\ pc = "products"
    /\ data_row - 3 = Len(products)
    /\ wizard' = StoredFields(wizard, worksheet)
    /\ returned' = [type |-> "ir.actions.act_url"]
    /\ pc' = "done"
    /\ UNCHANGED <<db, xlsxwriter, products, months, location_ids, worksheet,
                   data_row, col, month_idx, yearly_totals, raised>>

\* a mutant: the sheet written so far is stored when a query raises
FieldsStoredOnFailure(w, ws) == StoredFields(w, ws)

\* the fields of the wizard after a query raised: nothing was written
FieldsAfterFailure(w, ws) == w

\* A query of the product x month loop fails: the exception leaves
\* action_generate_report, which catches nothing.
QueryFailure ==
    /\ pc = "months"
    /\ month_idx < Len(months)
    /\ wizard' = FieldsAfterFailure(wizard, worksheet)
    /\ raised' = "OperationalError"
    /\ pc' = "failed"
    /\ UNCHANGED <<db, xlsxwriter, products, months, location_ids, worksheet,
                   data_row, col, month_idx, yearly_totals, returned>>

Next ==
    \/ Save
    \/ Begin
    \/ BeginProduct
    \/ WriteMonth
    \/ WriteYearlyTotals
    \/ SaveFile
    \/ QueryFailure

(***************************************************************************)
(* Initial states: a filled-in wizard form over a database.                *)
(***************************************************************************)
RECURSIVE BoundedSubsets(_, _)
\* the subsets of S of at most k elements
BoundedSubsets(S, k) ==
    IF k = 0 THEN {{}}
    ELSE LET prev == BoundedSubsets(S, k - 1)
         IN  prev \cup {T \cup {x} : T \in prev, x \in S}

RECURSIVE SetToSeq(_)
\* the rows of a set, as a table
SetToSeq(S) ==
    IF S = {} THEN <<>>
    ELSE LET x == CHOOSE x \in S : TRUE IN <<x>> \o SetToSeq(S \ {x})

Y0 == BaseYear
Y1 == BaseYear + 1

Form(date_from, date_to, product_ids, category_ids, warehouse_ids, include_pos, include_sales, include_purchases, excel_file, file_name) ==
    [date_from |-> date_from, date_to |-> date_to,
     product_ids |-> product_ids, category_ids |-> category_ids,
     warehouse_ids |-> warehouse_ids,
     include_pos |-> include_pos, include_sales |-> include_sales,
     include_purchases |-> include_purchases,
     excel_file |-> excel_file, file_name |-> file_name]

InitRequest(w, d, lib) ==
    /\ wizard = w
    /\ db = d
    /\ xlsxwriter = lib
    /\ pc = "form"
    /\ products = <<>>
    /\ months = <<>>
    /\ location_ids = {}
    /\ worksheet = <<>>
    /\ data_row = 0
    /\ col = 0
    /\ month_idx = 0
    /\ yearly_totals = <<>>
    /\ raised = NoError
    /\ returned = NoAction

\* Units (the reference) and Dozens
Uoms == {[id |-> 1, factor_inv |-> 1], [id |-> 2, factor_inv |-> 12]}

\* category 2 is a child of category 1; category 3 is another root
Categories ==
    {[id |-> 1, parent_id |-> 0], [id |-> 2, parent_id |-> 1],
     [id |-> 3, parent_id |-> 0]}

\* locations 1, 2 of warehouse 1 and 3 of warehouse 2 are internal; 4 is the
\* vendors' and 5 the customers' location; warehouse 3 has no internal location
Locations ==
    {[id |-> 1, usage |-> "internal", warehouse_id |-> 1],
     [id |-> 2, usage |-> "internal", warehouse_id |-> 1],
     [id |-> 3, usage |-> "internal", warehouse_id |-> 2],
     [id |-> 4, usage |-> "supplier", warehouse_id |-> 0],
     [id |-> 5, usage |-> "customer", warehouse_id |-> 0],
     [id |-> 6, usage |-> "view", warehouse_id |-> 3]}

Product(id, name, tmpl, type, categ) ==
    [id |-> id, name |-> name, product_tmpl_id |-> tmpl, type |-> type,
     categ_id |-> categ, uom_id |-> 1]

\* 1: a component; 2: the variant of template 2; 3, 4: the variants of
\* template 3; 5: a service; 6: a manufactured product
Catalog ==
    {Product(1, 3, 1, "consu", 2), Product(2, 2, 2, "consu", 2),
     Product(3, 1, 3, "consu", 1), Product(4, 1, 3, "consu", 1),
     Product(5, 4, 4, "service", 3), Product(6, 5, 5, "consu", 3)}

Bom(id, type, tmpl, product) ==
    [id |-> id, type |-> type, product_tmpl_id |-> tmpl, product_id |-> product]

BomLine(bom, product, qty, uom) ==
    [bom_id |-> bom, product_id |-> product, product_qty |-> qty,
     product_uom_id |-> uom]

\* product 2 is a kit of 2 units of product 1 (a BoM of the variant); every
\* variant of template 3 is a kit of 1 dozen; product 6 is manufactured from 5
KitBoms ==
    <<Bom(1, "phantom", 2, 2), Bom(2, "phantom", 3, 0), Bom(3, "normal", 5, 0)>>

KitBomLines ==
    <<BomLine(1, 1, 2, 1), BomLine(2, 1, 1, 2), BomLine(3, 1, 5, 1)>>

Move(product, state, date, from, to, qty, price, pol) ==
    [product_id |-> product, state |-> state, date |-> date,
     location_id |-> from, location_dest_id |-> to, product_qty |-> qty,
     price_unit |-> price, purchase_line_id |-> pol]

PurchaseLine(id, product, state, date, qty, price, uom) ==
    [id |-> id, product_id |-> product, state |-> state, date_approve |-> date,
     qty_received |-> qty, price_unit |-> price, product_uom_id |-> uom]

SaleLine(product, state, date, qty, price, uom) ==
    [product_id |-> product, state |-> state, date_order |-> date,
     qty_delivered |-> qty, price_unit |-> price, product_uom_id |-> uom]

PosLine(product, state, date, qty, subtotal) ==
    [product_id |-> product, state |-> state, date_order |-> date,
     qty |-> qty, price_subtotal_incl |-> subtotal]

Database(prods, boms, bom_lines, moves, purchases, sales, pos) ==
    [product_product |-> prods, product_category |-> Categories,
     stock_location |-> Locations, uom_uom |-> Uoms,
     mrp_bom |-> boms, mrp_bom_line |-> bom_lines,
     stock_move |-> moves, purchase_order_line |-> purchases,
     sale_order_line |-> sales, pos_order_line |-> pos]

(***************************************************************************)
(* SpecStock: the ledger varies, over the kit catalog and fixed order       *)
(* lines, under a fixed three-month range that crosses a year's end.       *)
(***************************************************************************)
StockCatalog == {Product(1, 1, 1, "consu", 2), Product(6, 5, 5, "consu", 3)}

StockDates == {<<Y0, 11, 30>>, <<Y0, 12, 31>>, <<Y1, 1, 1>>, <<Y1, 1, 31>>}

\* receipt, delivery, transfer inside warehouse 1, transfer to warehouse 2,
\* drop-shipping
Endpoints == {<<4, 1>>, <<1, 5>>, <<1, 2>>, <<1, 3>>, <<4, 5>>}

MoveUniverse ==
    {Move(1, "done", dt, ep[1], ep[2], 1, 10, 0) : dt \in StockDates, ep \in Endpoints}
    \cup {Move(1, "done", dt, 4, 2, 3, 10, 0) : dt \in StockDates}
    \cup {Move(1, "draft", <<Y1, 1, 1>>, 4, 1, 5, 10, 0),
          Move(6, "done", <<Y1, 1, 1>>, 4, 2, 7, 10, 0)}

\* the order lines every database of SpecStock holds: of product 1 before the
\* range, in December and in March, and of its kits 2 and 4 in January
StockPurchases == <<PurchaseLine(1, 1, "purchase", <<Y0, 11, 25>>, 10, 100, 1)>>

StockSales ==
    <<SaleLine(1, "sale", <<Y0, 12, 10>>, 4, 150, 1),
      SaleLine(2, "sale", <<Y1, 1, 5>>, 3, 50, 1),
      SaleLine(1, "sale", <<Y1, 3, 1>>, 9, 1, 1)>>

StockPos == <<PosLine(4, "paid", <<Y1, 1, 6>>, 1, 9)>>

InitStock ==
    \E S \in BoundedSubsets(MoveUniverse, MaxMoves), wids \in {{}, {1}} :
        InitRequest(
            Form(<<Y0, 12, 15>>, <<Y1, 2, 10>>, {}, {}, wids, TRUE, TRUE, TRUE,
                 NoFile, NoName),
            Database(Catalog, KitBoms, KitBomLines, SetToSeq(S),
                     StockPurchases, StockSales, StockPos),
            TRUE)

SpecStock == InitStock /\ [][Next]_vars

(***************************************************************************)
(* Reading the sheet                                                       *)
(***************************************************************************)
\* the data cells written so far: those of a product's row, right of its name
DataCells == {i \in 1 .. Len(worksheet) : worksheet[i].row >= 3 /\ worksheet[i].col >= 1}

\* the month (1-based) and the metric (1-based, in month_columns) of a column
\* of the month groups
MonthOfCol(c) == ((c - 1) \div cols_per_month) + 1
MetricOfCol(c) == month_columns[((c - 1) % cols_per_month) + 1][1]
IsMonthCol(c) == c >= 1 /\ c <= Len(months) * cols_per_month

\* the cells of a metric of the month groups
MetricCells(metric) ==
    {i \in DataCells : IsMonthCol(worksheet[i].col)
                        /\ MetricOfCol(worksheet[i].col) = metric}

(***************************************************************************)
(* C1: stock at a date is the signed sum over the product's done moves     *)
(* dated on or before it: +quantity for a move into the location set from  *)
(* outside, -quantity for a move out of it, and 0 for a move with both     *)
(* endpoints inside or both outside.                                       *)
(***************************************************************************)
SignedContribution(sm, locs) ==
    IF sm.location_dest_id \in locs /\ sm.location_id \notin locs THEN sm.product_qty
    ELSE IF sm.location_id \in locs /\ sm.location_dest_id \notin locs
         THEN 0 - sm.product_qty
    ELSE 0

SignedSum(d, product_id, date, locs) ==
    SumSeq([i \in 1 .. Len(d.stock_move) |->
        IF /\ d.stock_move[i].product_id = product_id
           /\ d.stock_move[i].state = "done"
           /\ DateLE(d.stock_move[i].date, date)
        THEN SignedContribution(d.stock_move[i], locs) ELSE 0])

\* C1: every opening and closing stock written is the signed sum, at its date,
\* in which a move inside the location set counts 0
C1_StockIsSignedSum ==
    \A i \in DataCells :
        LET c == worksheet[i].col
            product == products[worksheet[i].row - 2]
        IN  /\ IsMonthCol(c) /\ MetricOfCol(c) = "opening_qty" =>
                worksheet[i].value =
                    SignedSum(db, product.id, SubOneDay(months[MonthOfCol(c)].start),
                              location_ids)
            /\ IsMonthCol(c) /\ MetricOfCol(c) = "closing_qty" =>
                worksheet[i].value =
                    SignedSum(db, product.id, months[MonthOfCol(c)].end, location_ids)

(***************************************************************************)
(* C2: for every product and contiguous months M, M+1 of a run, the        *)
(* opening stock written for M+1 equals the closing stock written for M.   *)
(***************************************************************************)
\* C2: in a product's row, the opening stock of a month is the closing stock
\* written for the month before
C2_OpeningIsPreviousClosing ==
    \A i \in MetricCells("closing_qty"), j \in MetricCells("opening_qty") :
        LET a == worksheet[i]
            b == worksheet[j]
        IN  a.row = b.row /\ MonthOfCol(b.col) = MonthOfCol(a.col) + 1
            => b.value = a.value

\* a month opened with the stock the month before closed with, which a move
\* of the month before's last day and a move of its own first day changed
C2_Witness ==
    \E i, k \in MetricCells("closing_qty"), j \in MetricCells("opening_qty") :
        LET a == worksheet[i]
            b == worksheet[j]
            e == worksheet[k]
        IN  /\ a.row = b.row /\ a.row = e.row
            /\ MonthOfCol(b.col) = MonthOfCol(a.col) + 1
            /\ MonthOfCol(e.col) = MonthOfCol(b.col)
            /\ b.value = a.value /\ a.value # 0 /\ e.value # b.value

(***************************************************************************)
(* SpecMonths: the date range varies over a fixed database.                *)
(***************************************************************************)
\* the first, the fifteenth and the last day of every month of Years
DateSamples ==
    {<<y, m, d>> : y \in Years, m \in 1 .. 12, d \in {1, 15, 28, 29, 30, 31}}
    \ {<<y, m, d>> \in Years \X (1 .. 12) \X {28, 29, 30, 31} : d # DaysInMonth(y, m)}

MonthsDb ==
    Database(StockCatalog, <<>>, <<>>,
             <<Move(1, "done", <<Y0, 3, 31>>, 4, 1, 5, 10, 0),
               Move(1, "done", <<Y1, 1, 1>>, 1, 5, 2, 10, 0)>>,
             <<PurchaseLine(1, 1, "purchase", <<Y0, 12, 31>>, 5, 10, 1)>>,
             <<SaleLine(1, "sale", <<Y1, 1, 1>>, 2, 15, 1)>>,
             <<>>)

InitMonths ==
    \E date_from \in DateSamples, date_to \in DateSamples :
        InitRequest(
            Form(date_from, date_to, {1}, {}, {}, TRUE, TRUE, TRUE, NoFile, NoName),
            MonthsDb, TRUE)

SpecMonths == InitMonths /\ [][Next]_vars

(***************************************************************************)
(* C4: for a valid range the buckets are in strictly increasing (year,     *)
(* month) order with no calendar month skipped or repeated, the first      *)
(* bucket's [start, end] contains date_from and the last one's date_to.    *)
(***************************************************************************)
\* the request got past its validations: months holds the buckets
Started == pc \in {"products", "months", "done", "failed"}

FollowsInCalendar(a, b) ==
    \/ a.month < 12 /\ b.year = a.year /\ b.month = a.month + 1
    \/ a.month = 12 /\ b.year = a.year + 1 /\ b.month = 1

\* C4: the buckets follow each other in the calendar, from the month of
\* date_from to the month of date_to
C4_MonthsCoverRange ==
    Started =>
        /\ months # <<>>
        /\ \A i \in 1 .. Len(months) - 1 : FollowsInCalendar(months[i], months[i + 1])
        /\ DateLE(months[1].start, wizard.date_from)
        /\ DateLE(wizard.date_from, months[1].end)
        /\ DateLE(months[Len(months)].start, wizard.date_to)
        /\ DateLE(wizard.date_to, months[Len(months)].end)

\* a range from the middle of a month to the middle of a month of the next
\* year, bucketed
C4_Witness ==
    /\ Started
    /\ wizard.date_from[3] = 15 /\ wizard.date_to[3] = 15
    /\ wizard.date_from[1] < wizard.date_to[1]
    /\ Len(months) > 12

(***************************************************************************)
(* SpecMoves: the order lines and the channel toggles vary over the kit    *)
(* catalog, under a fixed range of three months in two years.              *)
(***************************************************************************)
SaleUniverse ==
    {SaleLine(1, "sale", <<Y0, 11, 1>>, 4, 150, 1),
     SaleLine(1, "done", <<Y0, 12, 31>>, 1, 10, 2),
     SaleLine(1, "sale", <<Y1, 1, 1>>, 5, 7, 1),
     SaleLine(2, "sale", <<Y0, 12, 5>>, 3, 50, 1),
     SaleLine(2, "sale", <<Y0, 12, 6>>, 0 - 3, 40, 1),
     SaleLine(3, "done", <<Y1, 1, 31>>, 2, 20, 1),
     SaleLine(2, "draft", <<Y0, 12, 5>>, 7, 50, 1),
     SaleLine(6, "sale", <<Y0, 12, 5>>, 5, 30, 1),
     SaleLine(1, "sale", <<Y1, 2, 1>>, 9, 1, 1)}

PosUniverse ==
    {PosLine(1, "paid", <<Y0, 11, 30>>, 2, 30),
     PosLine(2, "paid", <<Y0, 12, 1>>, 1, 25),
     PosLine(2, "invoiced", <<Y0, 12, 2>>, 0 - 1, 0 - 20),
     PosLine(4, "done", <<Y1, 1, 1>>, 1, 9),
     PosLine(2, "draft", <<Y0, 12, 1>>, 5, 100)}

PurchaseUniverse ==
    {PurchaseLine(1, 1, "purchase", <<Y0, 11, 30>>, 10, 100, 1),
     PurchaseLine(2, 1, "done", <<Y0, 12, 1>>, 1, 1100, 2),
     PurchaseLine(3, 1, "draft", <<Y0, 12, 1>>, 5, 1, 1),
     PurchaseLine(5, 2, "purchase", <<Y0, 12, 1>>, 5, 1, 1)}

\* the order lines of the three channels, each tagged with its table
LineUniverse ==
    {<<"sale", r>> : r \in SaleUniverse}
    \cup {<<"pos", r>> : r \in PosUniverse}
    \cup {<<"purchase", r>> : r \in PurchaseUniverse}

TableOf(S, table) == SetToSeq({t[2] : t \in {t \in S : t[1] = table}})

\* the purchase every database of SpecMoves holds
MovesPurchases == <<PurchaseLine(4, 1, "purchase", <<Y1, 1, 10>>, 3, 90, 1)>>

MovesLedger ==
    <<Move(1, "done", <<Y0, 11, 30>>, 4, 1, 10, 90, 1),
      Move(1, "done", <<Y0, 12, 5>>, 1, 5, 4, 150, 0)>>

InitMoves ==
    \E S \in BoundedSubsets(LineUniverse, MaxLines),
       include_pos \in BOOLEAN, include_sales \in BOOLEAN,
       include_purchases \in BOOLEAN :
        InitRequest(
            Form(<<Y0, 11, 20>>, <<Y1, 1, 10>>, {}, {}, {},
                 include_pos, include_sales, include_purchases, NoFile, NoName),
            Database(Catalog, KitBoms, KitBomLines, MovesLedger,
                     MovesPurchases \o TableOf(S, "purchase"), TableOf(S, "sale"), TableOf(S, "pos")),
            TRUE)

SpecMoves == InitMoves /\ [][Next]_vars

(***************************************************************************)
(* C3: for every product and year, each of the six yearly totals written   *)
(* is the sum of the product's monthly figure of the same name over the    *)
(* months of that year, and of no month of another year.                   *)
(***************************************************************************)
IsYearCol(c) == c > Len(months) * cols_per_month

\* the year and the total (1-based, in year_columns) of a column of the year groups
YearOfCol(c) ==
    YearsInRange(months)[((c - 1 - Len(months) * cols_per_month)
                           \div Len(year_columns)) + 1]
TotalOfCol(c) ==
    year_columns[((c - 1 - Len(months) * cols_per_month) % Len(year_columns)) + 1][1]

\* the monthly figure a yearly total sums
SummedMetric ==
    [total_purchase_qty |-> "purchase_qty", total_purchase_value |-> "purchase_value",
     total_sale_qty |-> "sale_qty", total_sale_value |-> "sale_value",
     total_pos_qty |-> "pos_qty", total_pos_value |-> "pos_value"]

\* the figure written for a product's row, a month and a metric
MonthFigure(row, m, metric) ==
    LET i == CHOOSE i \in DataCells :
                /\ worksheet[i].row = row
                /\ IsMonthCol(worksheet[i].col)
                /\ MonthOfCol(worksheet[i].col) = m
                /\ MetricOfCol(worksheet[i].col) = metric
    IN  worksheet[i].value

\* the sum of a product's monthly figures of a metric over the months of a year
SumOfYear(row, year, metric) ==
    SumSeq([m \in 1 .. Len(months) |->
        IF months[m].year = year THEN MonthFigure(row, m, metric) ELSE 0])

\* C3: every yearly total written is the sum of the row's monthly figures of
\* that metric over the months of that year
C3_YearlyTotalsAreSums ==
    \A i \in DataCells :
        IsYearCol(worksheet[i].col) =>
            worksheet[i].value =
                SumOfYear(worksheet[i].row, YearOfCol(worksheet[i].col),
                          SummedMetric[TotalOfCol(worksheet[i].col)])

\* a yearly total written that sums two months' figures, while a month of
\* another year has a figure of the same metric
C3_Witness ==
    \E i \in DataCells :
        LET wr == worksheet[i]
            metric == SummedMetric[TotalOfCol(wr.col)]
        IN  /\ IsYearCol(wr.col)
            /\ \E m, n \in 1 .. Len(months) :
                /\ m # n
                /\ months[m].year = YearOfCol(wr.col)
                /\ months[n].year # YearOfCol(wr.col)
                /\ MonthFigure(wr.row, m, metric) # 0
                /\ MonthFigure(wr.row, n, metric) # 0
                /\ wr.value # MonthFigure(wr.row, m, metric)

(***************************************************************************)
(* C5: with the channel enabled, a component's sale_qty for a window is    *)
(* its own delivered quantity plus, for every kit containing it, the       *)
(* kit's own sale_qty in the window times the per-kit multiplier; and the  *)
(* same for pos_qty.                                                       *)
(***************************************************************************)
\* the products a phantom BoM with a line of the component makes a kit of it
KitsContaining(d, component_id) ==
    {k.id : k \in {k \in d.product_product :
        \E l \in Range(d.mrp_bom_line), b \in Range(d.mrp_bom) :
            /\ l.product_id = component_id
            /\ l.bom_id = b.id
            /\ b.type = "phantom"
            /\ \/ b.product_id = k.id
               \/ b.product_id = 0 /\ b.product_tmpl_id = k.product_tmpl_id}}

\* the product and the month of a cell of the month groups
ProductOfCell(i) == products[worksheet[i].row - 2]
MonthOfCell(i) == months[MonthOfCol(worksheet[i].col)]

\* own sale_qty of the product plus the kits' own sale_qty times the multiplier
AttributedSaleQty(d, product_id, month) ==
    LET kits == SetToSeq(KitsContaining(d, product_id))
        multiplier == _get_phantom_bom_components(d, product_id)
    IN  SaleQuery(d, product_id, month.start, month.end).qty
        + SumSeq([n \in 1 .. Len(kits) |->
            SaleQuery(d, kits[n], month.start, month.end).qty * multiplier[kits[n]]])

AttributedPosQty(d, product_id, month) ==
    LET kits == SetToSeq(KitsContaining(d, product_id))
        multiplier == _get_phantom_bom_components(d, product_id)
    IN  PosQuery(d, product_id, month.start, month.end).qty
        + SumSeq([n \in 1 .. Len(kits) |->
            PosQuery(d, kits[n], month.start, month.end).qty * multiplier[kits[n]]])

\* C5: every sale_qty (pos_qty) written with the channel enabled is the
\* product's own quantity plus each kit's own quantity times its multiplier
C5_KitQuantityAttributed ==
    /\ wizard.include_sales =>
        \A i \in MetricCells("sale_qty") :
            worksheet[i].value = AttributedSaleQty(db, ProductOfCell(i).id, MonthOfCell(i))
    /\ wizard.include_pos =>
        \A i \in MetricCells("pos_qty") :
            worksheet[i].value = AttributedPosQty(db, ProductOfCell(i).id, MonthOfCell(i))

\* the component sold itself in a month in which 3 units of the kit of 2 were
\* sold: 6 more than its own sales are written
C5_Witness ==
    /\ wizard.include_sales
    /\ \E i \in MetricCells("sale_qty") :
        LET own == SaleQuery(db, ProductOfCell(i).id, MonthOfCell(i).start,
                             MonthOfCell(i).end).qty
        IN  /\ ProductOfCell(i).id = 1
            /\ _get_phantom_bom_components(db, 1)[2] = 2
            /\ SaleQuery(db, 2, MonthOfCell(i).start, MonthOfCell(i).end).qty = 3
            /\ own # 0
            /\ worksheet[i].value = own + 6

(***************************************************************************)
(* C10: a disabled channel's quantity and value are 0 for every product    *)
(* and window, kit contributions included, and disabling a channel does    *)
(* not change the figures of the others.                                   *)
(***************************************************************************)
\* the wizard with its three channels enabled
AllChannels(w) ==
    [w EXCEPT !.include_purchases = TRUE, !.include_sales = TRUE, !.include_pos = TRUE]

\* whether the channel of a metric is enabled
ChannelEnabled(w, metric) ==
    IF metric \in {"purchase_qty", "purchase_value"} THEN w.include_purchases
    ELSE IF metric \in {"sale_qty", "sale_value"} THEN w.include_sales
    ELSE w.include_pos

ChannelMetrics ==
    {"purchase_qty", "purchase_value", "sale_qty", "sale_value", "pos_qty", "pos_value"}

\* the figures of a cell's product and month with every channel enabled
FiguresAllChannels(i) ==
    _get_stock_moves_data(AllChannels(wizard), db, ProductOfCell(i).id,
                          MonthOfCell(i).start, MonthOfCell(i).end, location_ids)

\* the figure of a cell's metric with every channel enabled
FigureAllChannels(i) == FiguresAllChannels(i)[MetricOfCol(worksheet[i].col)]

\* the cells of the row and month of cell i whose metric is a channel's
ChannelCellsOf(i) ==
    {j \in DataCells :
        /\ worksheet[j].row = worksheet[i].row
        /\ IsMonthCol(worksheet[j].col)
        /\ MonthOfCol(worksheet[j].col) = MonthOfCol(worksheet[i].col)
        /\ MetricOfCol(worksheet[j].col) \in ChannelMetrics}

\* C10: every channel figure written is 0 when its channel is disabled, and
\* else what it is with all three channels enabled
C10_DisabledChannelIsZero ==
    \A i \in MetricCells("opening_qty") :
        LET all == FiguresAllChannels(i)
            cells == ChannelCellsOf(i)
        IN  /\ {MetricOfCol(worksheet[j].col) : j \in cells} = ChannelMetrics
            /\ \A j \in cells :
                worksheet[j].value =
                    IF ChannelEnabled(wizard, MetricOfCol(worksheet[j].col))
                    THEN all[MetricOfCol(worksheet[j].col)] ELSE 0

\* sales disabled and point of sale enabled: a month whose sales, a kit's
\* among them, are written as 0 and whose point-of-sale figure is not 0
C10_Witness ==
    /\ ~wizard.include_sales /\ wizard.include_pos
    /\ \E i \in MetricCells("sale_qty"), j \in MetricCells("pos_value") :
        /\ worksheet[i].row = worksheet[j].row
        /\ MonthOfCol(worksheet[i].col) = MonthOfCol(worksheet[j].col)
        /\ worksheet[i].value = 0
        /\ FigureAllChannels(i) # 0
        /\ SaleQuery(db, ProductOfCell(i).id, MonthOfCell(i).start,
                     MonthOfCell(i).end).qty = 0
        /\ worksheet[j].value # 0

(***************************************************************************)
(* Spec: the forms a user may submit (dates in either order, filters that  *)
(* select nothing, a warehouse without stock locations), with or without   *)
(* the spreadsheet library and a file stored by an earlier request, over   *)
(* the database of the end-to-end scenario and a variation of it.          *)
(***************************************************************************)
\* product 1 is the stocked product P; product 2 is a kit of 2 units of it
ScenarioCatalog == {Product(1, 1, 1, "consu", 2), Product(2, 2, 2, "consu", 2)}

\* one purchase of 10 at 100 approved 2024-01-15, received the same day into
\* location 1; one sale of 4 at 150 ordered 2024-01-20, with no delivery move
ScenarioDb ==
    Database(ScenarioCatalog,
             <<Bom(1, "phantom", 2, 2)>>, <<BomLine(1, 1, 2, 1)>>,
             <<Move(1, "done", <<2024, 1, 15>>, 4, 1, 10, 100, 1)>>,
             <<PurchaseLine(1, 1, "purchase", <<2024, 1, 15>>, 10, 100, 1)>>,
             <<SaleLine(1, "sale", <<2024, 1, 20>>, 4, 150, 1)>>,
             <<>>)

\* the scenario's database after the delivery of the sale and a sale of 3 kits
DeliveredDb ==
    [ScenarioDb EXCEPT
        !.stock_move = @ \o <<Move(1, "done", <<2024, 1, 21>>, 1, 5, 4, 150, 0)>>,
        !.sale_order_line = @ \o <<SaleLine(2, "sale", <<2024, 2, 1>>, 3, 500, 1)>>]

FormDates == {<<2023, 12, 31>>, <<2024, 1, 1>>, <<2024, 2, 29>>, <<2024, 3, 1>>}

Init ==
    \E d \in {ScenarioDb, DeliveredDb},
       date_from \in FormDates, date_to \in FormDates,
       product_ids \in {{}, {1}, {2}}, category_ids \in {{}, {3}},
       warehouse_ids \in {{}, {1}, {3}},
       lib \in BOOLEAN,
       stored \in {<<NoFile, NoName>>, <<PriorFile, PriorName>>} :
        InitRequest(
            Form(date_from, date_to, product_ids, category_ids, warehouse_ids,
                 TRUE, TRUE, TRUE, stored[1], stored[2]),
            d, lib)

Spec == Init /\ [][Next]_vars

\* the values of the cells of a product's row, by column
RowValues(row) ==
    [c \in 1 .. (Len(months) * cols_per_month
                 + Len(YearsInRange(months)) * Len(year_columns)) |->
        worksheet[CHOOSE i \in DataCells :
                    worksheet[i].row = row /\ worksheet[i].col = c].value]

(***************************************************************************)
(* C6 (as amended): in the end-to-end scenario, range 2024-01-01 to        *)
(* 2024-02-29, the row of P is January: opening 0, purchase 10 / 1000,     *)
(* sale 4 / 600, pos 0 / 0, closing 10; February: opening 10, flows 0,     *)
(* closing 10; year 2024: purchase 10 / 1000, sale 4 / 600, pos 0 / 0.     *)
(* The closing stock is the 10 units moved in: the sale has no stock move. *)
(***************************************************************************)
\* the request of the scenario has run to its end
ScenarioDone ==
    /\ pc = "done"
    /\ db = ScenarioDb
    /\ wizard.date_from = <<2024, 1, 1>> /\ wizard.date_to = <<2024, 2, 29>>
    /\ Len(products) = 1 /\ products[1].id = 1

\* C6 (as amended): the row of P in the scenario, closing stock 10
C6_ScenarioRow ==
    ScenarioDone =>
        RowValues(3) = <<0, 10, 1000, 4, 600, 0, 0, 10,
                         10, 0, 0, 0, 0, 0, 0, 10,
                         10, 1000, 4, 600, 0, 0>>

C6_Witness ==
    /\ ScenarioDone
    /\ [m \in 1 .. Len(months) |-> months[m].name]
        = <<<<"January", 2024>>, <<"February", 2024>>>>
    /\ wizard.excel_file = FileData(worksheet)

\* C6 as stated: closing stock 6 in January, opening and closing 6 in February
C6_ScenarioRowAsStated ==
    ScenarioDone =>
        RowValues(3) = <<0, 10, 1000, 4, 600, 0, 0, 6,
                         6, 0, 0, 0, 0, 0, 0, 6,
                         10, 1000, 4, 600, 0, 0>>

(***************************************************************************)
(* C8: each validation failure (start date after end date, no product      *)
(* after filtering, no month, no stock location, no spreadsheet library)   *)
(* ends the request with a user error, leaves excel_file and file_name as  *)
(* they were and returns no download action.                               *)
(***************************************************************************)
UserErrors ==
    {"Start Date must be before End Date.",
     "xlsxwriter library is required. Please install it using: pip install xlsxwriter",
     "No products found with the given criteria.",
     "No months found in the selected date range.",
     "No stock locations found."}

\* one of the failures that action_generate_report checks holds
GenerationInvalid ==
    \/ ~xlsxwriter
    \/ _get_products(wizard, db) = <<>>
    \/ _get_months_in_range(wizard) = <<>>
    \/ _get_location_ids(wizard, db) = {}

\* C8: a step from a form or wizard that fails a validation ends in a user
\* error, and a step into a refusal changes neither field and returns nothing
C8_ValidationFailuresAbort ==
    [][/\ (pc = "form" /\ DateLT(wizard.date_to, wizard.date_from))
            \/ (pc = "saved" /\ GenerationInvalid)
          => /\ pc' = "rejected"
             /\ raised' \in UserErrors
       /\ pc' = "rejected" =>
             /\ wizard'.excel_file = wizard.excel_file
             /\ wizard'.file_name = wizard.file_name
             /\ returned' = NoAction
             /\ worksheet' = <<>>]_vars

\* a request for a warehouse without stock locations was refused, and the
\* file of the earlier request is still the one stored
C8_Witness ==
    /\ pc = "rejected"
    /\ raised = "No stock locations found."
    /\ wizard.excel_file = PriorFile /\ wizard.file_name = PriorName
    /\ returned = NoAction

(***************************************************************************)
(* C9: excel_file and file_name are written only once every product x      *)
(* month cell and every yearly total is in the sheet; a query failure in   *)
(* the loop ends the request with the exception and leaves the fields as   *)
(* they were: no partly filled report is stored or returned.               *)
(***************************************************************************)
\* every cell of every product's row is written, once
SheetComplete ==
    \A r \in 1 .. Len(products) :
        \A c \in 1 .. (Len(months) * cols_per_month
                       + Len(YearsInRange(months)) * Len(year_columns)) :
            Cardinality({i \in DataCells :
                worksheet[i].row = 2 + r /\ worksheet[i].col = c}) = 1

\* C9: a step that changes excel_file, file_name or the returned action starts
\* from a complete sheet and stores it; a step into a failure changes nothing
C9_NoPartialReport ==
    [][/\ (wizard'.excel_file # wizard.excel_file
           \/ wizard'.file_name # wizard.file_name
           \/ returned' # returned)
          => /\ SheetComplete
             /\ products # <<>> /\ months # <<>>
             /\ worksheet' = worksheet
             /\ wizard'.excel_file = FileData(worksheet)
             /\ wizard'.file_name = FileName(wizard)
             /\ pc' = "done"
       /\ pc' = "failed"
          => /\ raised' # NoError
             /\ wizard' = wizard
             /\ returned' = NoAction]_vars

\* a query failed after cells of the second month were written: the file of
\* the earlier request is still the one stored
C9_Witness ==
    /\ pc = "failed"
    /\ month_idx >= 1
    /\ DataCells # {}
    /\ ~SheetComplete
    /\ wizard.excel_file = PriorFile /\ wizard.file_name = PriorName
    /\ returned = NoAction

(***************************************************************************)
(* SpecProducts: the bills of materials, the order of their lines and the  *)
(* product and category filters vary over the catalog, under a range of    *)
(* one month.                                                              *)
(***************************************************************************)
\* phantom BoMs of variant 2, of template 3 and of its variant 3 alone, and of
\* the service's template; normal BoMs of template 5 and of variant 4
BomUniverse ==
    {Bom(1, "phantom", 2, 2), Bom(2, "phantom", 3, 0), Bom(3, "phantom", 3, 3),
     Bom(4, "normal", 5, 0), Bom(5, "normal", 3, 4), Bom(6, "phantom", 4, 0)}

\* every BoM has one line, of product 1, and BoM 1 a second one after these
LinesOfBoms(boms) ==
    [n \in 1 .. Len(boms) |->
        BomLine(boms[n].id, 1, boms[n].id + 1, IF boms[n].id = 2 THEN 2 ELSE 1)]
    \o (IF \E n \in 1 .. Len(boms) : boms[n].id = 1
        THEN <<BomLine(1, 1, 5, 1)>> ELSE <<>>)

\* the rows of a table in the opposite order
Reversed(t) == [n \in 1 .. Len(t) |-> t[Len(t) + 1 - n]]

ProductsSales ==
    <<SaleLine(1, "sale", <<Y0, 12, 31>>, 4, 150, 1),
      SaleLine(2, "sale", <<Y0, 12, 5>>, 3, 50, 1),
      SaleLine(4, "done", <<Y0, 12, 1>>, 2, 20, 1)>>

InitProducts ==
    \E S \in BoundedSubsets(BomUniverse, MaxBoms),
       lines_reversed \in BOOLEAN,
       product_ids \in {{}, {1}, {3}, {4, 6}, {2, 4, 5}},
       category_ids \in {{}, {1}, {2}, {3}, {2, 3}} :
        InitRequest(
            Form(<<Y0, 12, 1>>, <<Y0, 12, 31>>, product_ids, category_ids, {},
                 TRUE, TRUE, TRUE, NoFile, NoName),
            Database(Catalog, SetToSeq(S),
                     IF lines_reversed THEN Reversed(LinesOfBoms(SetToSeq(S)))
                     ELSE LinesOfBoms(SetToSeq(S)),
                     MovesLedger, MovesPurchases, ProductsSales, <<>>),
            TRUE)

SpecProducts == InitProducts /\ [][Next]_vars

(***************************************************************************)
(* C7: the product list never holds a variant whose template has a phantom *)
(* BoM, also when that BoM is of another variant of the template; every    *)
(* variant it holds matches the product and category filters and is held   *)
(* once.                                                                   *)
(***************************************************************************)
RECURSIVE Subtree(_, _)
\* the categories of the subtrees under roots
Subtree(d, roots) ==
    LET next == roots \cup {c.id : c \in {c \in d.product_category :
                                            c.parent_id \in roots}}
    IN  IF next = roots THEN roots ELSE Subtree(d, next)

HasPhantomBom(d, tmpl_id) ==
    \E b \in Range(d.mrp_bom) : b.type = "phantom" /\ b.product_tmpl_id = tmpl_id

MatchesFilters(w, d, p) ==
    /\ w.product_ids # {} => p.id \in w.product_ids
    /\ w.category_ids # {} => p.categ_id \in Subtree(d, w.category_ids)

\* C7: no product of the list has a template with a phantom BoM; each matches
\* the filters, is a product of the catalog and is listed once
C7_NoKitInProducts ==
    Started =>
        /\ \A i \in 1 .. Len(products) :
            /\ ~HasPhantomBom(db, products[i].product_tmpl_id)
            /\ MatchesFilters(wizard, db, products[i])
            /\ products[i] \in db.product_product
        /\ \A i, j \in 1 .. Len(products) : products[i].id = products[j].id => i = j

\* variant 4 matches a category filter and is left out because of the phantom
\* BoM of variant 3, the other variant of its template; product 1 is held
C7_Witness ==
    /\ Started
    /\ wizard.category_ids # {}
    /\ \E b \in Range(db.mrp_bom) : b.type = "phantom" /\ b.product_id = 3
    /\ ~\E b \in Range(db.mrp_bom) : b.type = "phantom" /\ b.product_id = 0
    /\ MatchesFilters(wizard, db, Row(db.product_product, 4))
    /\ \A i \in 1 .. Len(products) : products[i].id # 4
    /\ \E i \in 1 .. Len(products) : products[i].id = 1

(***************************************************************************)
(* C11: for a product with no stock move, purchase line, sale line or      *)
(* point-of-sale line in a window, and no sale or point-of-sale line of a  *)
(* kit containing it, _get_stock_moves_data returns ten zeros; over an     *)
(* empty ledger _get_stock_at_date returns 0.                              *)
(***************************************************************************)
\* no row of the table is of one of the products and dated in the window
NoRowIn(table, ids, date_field, date_start, date_end) ==
    \A r \in Range(table) :
        ~(/\ r.product_id \in ids
          /\ ~DateLT(r[date_field], date_start)
          /\ ~DateLT(date_end, r[date_field]))

\* the product, and the kits containing it, have no movement in the window
Quiet(d, product_id, date_start, date_end) ==
    LET own == {product_id}
        sold == own \cup KitsContaining(d, product_id)
    IN  /\ NoRowIn(d.stock_move, own, "date", date_start, date_end)
        /\ NoRowIn(d.purchase_order_line, own, "date_approve", date_start, date_end)
        /\ NoRowIn(d.sale_order_line, sold, "date_order", date_start, date_end)
        /\ NoRowIn(d.pos_order_line, sold, "date_order", date_start, date_end)

AllZeroMetrics ==
    [qty_in |-> 0, qty_out |-> 0, value_in |-> 0, value_out |-> 0,
     purchase_qty |-> 0, purchase_value |-> 0, sale_qty |-> 0, sale_value |-> 0,
     pos_qty |-> 0, pos_value |-> 0]

\* the figures of a cell's product and month, as the wizard is set
FiguresOfCell(i) ==
    _get_stock_moves_data(wizard, db, ProductOfCell(i).id,
                          MonthOfCell(i).start, MonthOfCell(i).end, location_ids)

\* C11: a written month in which the product and its kits are quiet has ten
\* zero metrics and six zero channel cells; over an empty ledger every opening
\* and closing stock is 0
C11_QuietWindowIsZero ==
    \A i \in MetricCells("opening_qty") :
        /\ Quiet(db, ProductOfCell(i).id, MonthOfCell(i).start, MonthOfCell(i).end)
            => /\ FiguresOfCell(i) = AllZeroMetrics
               /\ \A j \in ChannelCellsOf(i) : worksheet[j].value = 0
        /\ db.stock_move = <<>>
            => /\ _get_stock_at_date(db, ProductOfCell(i).id,
                                     SubOneDay(MonthOfCell(i).start), location_ids) = 0
               /\ _get_stock_at_date(db, ProductOfCell(i).id, MonthOfCell(i).end,
                                     location_ids) = 0
               /\ worksheet[i].value = 0

\* the report ran to its end over an empty ledger, and the component's quiet
\* February followed a quiet-less December and January with sales written
C11_Witness ==
    /\ pc = "done" /\ raised = NoError
    /\ db.stock_move = <<>>
    /\ \E i, j, k \in MetricCells("sale_qty") :
        /\ ProductOfCell(i).id = 1
        /\ worksheet[i].row = worksheet[j].row /\ worksheet[i].row = worksheet[k].row
        /\ MonthOfCol(worksheet[i].col) = 1 /\ worksheet[i].value # 0
        /\ MonthOfCol(worksheet[j].col) = 2 /\ worksheet[j].value # 0
        /\ MonthOfCol(worksheet[k].col) = 3 /\ worksheet[k].value = 0
        /\ Quiet(db, 1, MonthOfCell(k).start, MonthOfCell(k).end)
        /\ ~Quiet(db, 1, MonthOfCell(j).start, MonthOfCell(j).end)

(***************************************************************************)
(* C12: _get_stock_at_date is a function of (product, date, location set,  *)
(* ledger): a call returns the same for the same arguments whatever calls  *)
(* of it and of _get_stock_moves_data came before, and no such call        *)
(* changes the ledger or a field of the wizard.                            *)
(***************************************************************************)
\* the date of the _get_stock_at_date call that filled an opening or closing cell
StockCallDate(i) ==
    IF MetricOfCol(worksheet[i].col) = "opening_qty"
    THEN SubOneDay(MonthOfCell(i).start) ELSE MonthOfCell(i).end

StockCells == MetricCells("opening_qty") \cup MetricCells("closing_qty")

\* every stock written by an earlier call is what the call returns now
StockCallsRepeat ==
    /\ \A i \in StockCells :
        worksheet[i].value =
            _get_stock_at_date(db, ProductOfCell(i).id, StockCallDate(i), location_ids)
    /\ \A i, j \in StockCells :
        /\ worksheet[i].row = worksheet[j].row
        /\ StockCallDate(i) = StockCallDate(j)
        => worksheet[i].value = worksheet[j].value

MonthCount(w) ==
    12 * (w.date_to[1] - w.date_from[1]) + (w.date_to[2] - w.date_from[2]) + 1

WholeMonth(b) ==
    /\ b.start = <<b.year, b.month, 1>>
    /\ b.end = <<b.year, b.month, DaysInMonth(b.year, b.month)>>

\* C13: whenever the dates pass _check_dates, _get_months_in_range returns
\* MonthCount whole months, at least one; the buckets of a started request are
\* these, and the request never ends with 'No months found'
C13_MonthsNeverEmpty ==
    /\ ~_check_dates(wizard) =>
        LET ms == _get_months_in_range(wizard)
        IN  /\ ms # <<>>
            /\ Len(ms) = MonthCount(wizard)
            /\ \A i \in 1 .. Len(ms) : WholeMonth(ms[i])
            /\ Started => months = ms
    /\ raised # "No months found in the selected date range."

\* a range of the single day 29 February was accepted and bucketed: one
\* bucket, the whole of February
C13_Witness ==
    /\ Started
    /\ wizard.date_from = wizard.date_to
    /\ wizard.date_from[2] = 2 /\ wizard.date_from[3] = 29
    /\ Len(months) = 1
    /\ months[1].end = wizard.date_to

(***************************************************************************)
(* C14: every month label spans 8 sub-columns and every year label 6, the  *)
(* month groups come before the year groups; the cells of a product's row  *)
(* fill columns 1 .. 8 * |months| + 6 * |years|, each once, and the value  *)
(* under a sub-header is the metric of that name of the month or year      *)
(* labelled above it; product i (from 0) is on row 3 + i.                  *)
(***************************************************************************)
MonthLabels ==
    {i \in 1 .. Len(worksheet) : /\ worksheet[i].row = 1 /\ worksheet[i].col >= 1
                                 /\ worksheet[i].format = "header_month"}

YearLabels ==
    {i \in 1 .. Len(worksheet) : /\ worksheet[i].row = 1
                                 /\ worksheet[i].format = "header_year"}

SubHeaders == {i \in 1 .. Len(worksheet) : worksheet[i].row = 2 /\ worksheet[i].col >= 1}

LastCol == 8 * Len(months) + 6 * Len(YearsInRange(months))

\* the column of sub-column k of month m, and of sub-column k of the y-th year
MonthColumn(m, k) == 8 * (m - 1) + k
YearColumn(y, k) == 8 * Len(months) + 6 * (y - 1) + k

\* rows 1 and 2: month m is labelled over the 8 columns from MonthColumn(m, 1)
\* and the y-th year over the 6 from YearColumn(y, 1), after all the months;
\* the sub-header of sub-column k is the label of the k-th column definition
HeaderLayout ==
    LET ys == YearsInRange(months)
        ml == MonthLabels
        yl == YearLabels
        sh == SubHeaders
    IN  /\ Cardinality(ml) = Len(months)
        /\ Cardinality(yl) = Len(ys)
        /\ Cardinality(sh) = LastCol
        /\ \A i \in ml : worksheet[i].end_col - worksheet[i].col + 1 = 8
        /\ \A i \in yl : worksheet[i].end_col - worksheet[i].col + 1 = 6
        /\ \A i \in ml, j \in yl : worksheet[i].end_col < worksheet[j].col
        /\ \A m \in 1 .. Len(months) :
            /\ \E i \in ml : /\ worksheet[i].value = months[m].name
                             /\ worksheet[i].col = MonthColumn(m, 1)
            /\ \A k \in 1 .. 8 : \E i \in sh :
                /\ worksheet[i].col = MonthColumn(m, k)
                /\ worksheet[i].value = <<month_columns[k][2]>>
        /\ \A y \in 1 .. Len(ys) :
            /\ \E i \in yl : /\ worksheet[i].value = <<"Year ", ys[y], " Total">>
                             /\ worksheet[i].col = YearColumn(y, 1)
            /\ \A k \in 1 .. 6 : \E i \in sh :
                /\ worksheet[i].col = YearColumn(y, k)
                /\ worksheet[i].value = <<year_columns[k][2]>>

\* the cells of a row, right of the product's name
RowCells(r) == {i \in DataCells : worksheet[i].row = r}

\* the row holds its product's name and one cell in each column up to last
RowFilled(r, last) ==
    LET cells == RowCells(r)
    IN  /\ Cardinality({i \in 1 .. Len(worksheet) :
                /\ worksheet[i].row = r /\ worksheet[i].col = 0
                /\ worksheet[i].value = <<"name", products[r - 2].id>>}) = 1
        /\ Cardinality(cells) = last
        /\ {worksheet[i].col : i \in cells} = 1 .. last

\* the value of every cell of a row is the metric of its sub-column: of the
\* month, for the product of the row, or of the year, the sum over its months
RowValuesUnderHeaders(r) ==
    LET cells == RowCells(r)
        ys == YearsInRange(months)
        at(c) == worksheet[CHOOSE i \in cells : worksheet[i].col = c].value
    IN  /\ \A m \in 1 .. Len(months) :
            LET md == MonthData(wizard, db, products[r - 2], months[m], location_ids)
            IN  \A i \in cells, k \in 1 .. 8 :
                    worksheet[i].col = MonthColumn(m, k)
                    => worksheet[i].value = md[month_columns[k][1]]
        /\ \A i \in cells, y \in 1 .. Len(ys), k \in 1 .. 6 :
            worksheet[i].col = YearColumn(y, k)
            => worksheet[i].value =
                SumSeq([m \in 1 .. Len(months) |->
                    IF months[m].year = ys[y] THEN at(MonthColumn(m, k + 1)) ELSE 0])

\* C14: the groups are 8 and 6 wide, months before years; finished rows fill
\* columns 1 .. LastCol once each and the row in progress the columns before
\* col; every value is the metric named by its sub-header; row 3 + i is
\* product i's
C14_SheetLayout ==
    worksheet # <<>> =>
        /\ HeaderLayout
        /\ \A i \in DataCells : worksheet[i].row \in 3 .. (2 + Len(products))
        /\ \A r \in 3 .. (data_row - 1) : RowFilled(r, LastCol)
        /\ pc = "done" => data_row = 3 + Len(products)
        /\ pc \in {"months", "failed"} => RowFilled(data_row, col - 1)
        /\ \A r \in 3 .. (2 + Len(products)) : RowValuesUnderHeaders(r)

\* a stored sheet of two products, three months and two years: the row of the
\* first has different sales quantity and value under January's sub-headers
\* and a total in the last year's group; the second product's row is row 4
C14_Witness ==
    /\ pc = "done"
    /\ Len(products) = 2 /\ Len(months) = 3 /\ Len(YearsInRange(months)) = 2
    /\ \E i, j, k \in RowCells(3) :
        /\ worksheet[i].col = MonthColumn(2, 4) /\ worksheet[i].value # 0
        /\ worksheet[j].col = MonthColumn(2, 5)
        /\ worksheet[j].value # worksheet[i].value
        /\ worksheet[k].col = YearColumn(2, 4) /\ worksheet[k].value # 0
    /\ \E i \in RowCells(4) : worksheet[i].col = LastCol
    /\ products[1].id # products[2].id

(***************************************************************************)
(* C15: with the channel enabled, a component's sale_value for a window is *)
(* its own value plus, for every kit containing it, the kit's own          *)
(* sale_value in the window times the per-kit multiplier, also when the    *)
(* kit's quantities in the window add up to zero and its values do not;    *)
(* and the same for pos_value.                                             *)
(***************************************************************************)
\* own sale_value of the product plus the kits' own sale_value times the multiplier
AttributedSaleValue(d, product_id, month) ==
    LET kits == SetToSeq(KitsContaining(d, product_id))
        multiplier == _get_phantom_bom_components(d, product_id)
    IN  SaleQuery(d, product_id, month.start, month.end).value
        + SumSeq([n \in 1 .. Len(kits) |->
            SaleQuery(d, kits[n], month.start, month.end).value * multiplier[kits[n]]])

AttributedPosValue(d, product_id, month) ==
    LET kits == SetToSeq(KitsContaining(d, product_id))
        multiplier == _get_phantom_bom_components(d, product_id)
    IN  PosQuery(d, product_id, month.start, month.end).value
        + SumSeq([n \in 1 .. Len(kits) |->
            PosQuery(d, kits[n], month.start, month.end).value * multiplier[kits[n]]])

\* C15: every sale_value (pos_value) written with the channel enabled is the
\* product's own value plus each kit's own value times its multiplier
C15_KitValueAttributed ==
    /\ wizard.include_sales =>
        \A i \in MetricCells("sale_value") :
            worksheet[i].value = AttributedSaleValue(db, ProductOfCell(i).id, MonthOfCell(i))
    /\ wizard.include_pos =>
        \A i \in MetricCells("pos_value") :
            worksheet[i].value = AttributedPosValue(db, ProductOfCell(i).id, MonthOfCell(i))

\* what holds instead: the same, when no kit has a value without a quantity
C15_KitValueWhenQuantityNotZero ==
    /\ wizard.include_sales =>
        \A i \in MetricCells("sale_value") :
            (\A k \in KitsContaining(db, ProductOfCell(i).id) :
                LET kit == SaleQuery(db, k, MonthOfCell(i).start, MonthOfCell(i).end)
                IN  kit.qty = 0 => kit.value = 0)
            => worksheet[i].value
                = AttributedSaleValue(db, ProductOfCell(i).id, MonthOfCell(i))
    /\ wizard.include_pos =>
        \A i \in MetricCells("pos_value") :
            (\A k \in KitsContaining(db, ProductOfCell(i).id) :
                LET kit == PosQuery(db, k, MonthOfCell(i).start, MonthOfCell(i).end)
                IN  kit.qty = 0 => kit.value = 0)
            => worksheet[i].value
                = AttributedPosValue(db, ProductOfCell(i).id, MonthOfCell(i))

(***************************************************************************)
(* C16: _get_phantom_bom_components(C) returns the kits of the phantom     *)
(* BoMs with a line of C and no other product: the variant of a BoM of a   *)
(* variant, every variant of the template of a BoM of a template, nothing  *)
(* for a BoM that is not phantom; the multiplier is the line's quantity,   *)
(* converted to C's unit of measure when the line's unit is another.       *)
(***************************************************************************)
\* the kits a BoM line makes of its component
KitsOfLine(d, l) ==
    LET b == CHOOSE b \in Range(d.mrp_bom) : b.id = l.bom_id
    IN  IF b.type # "phantom" THEN {}
        ELSE IF b.product_id # 0 THEN {b.product_id}
        ELSE {p.id : p \in {p \in d.product_product :
                                p.product_tmpl_id = b.product_tmpl_id}}

\* the line's quantity in the unit of measure of its component
QtyInComponentUnit(d, l) ==
    LET unit == (CHOOSE p \in d.product_product : p.id = l.product_id).uom_id
        ratio(u) == (CHOOSE r \in d.uom_uom : r.id = u).factor_inv
    IN  IF l.product_uom_id = unit THEN l.product_qty
        ELSE (l.product_qty * ratio(l.product_uom_id)) \div ratio(unit)

\* C16: for every reported product C, the result holds exactly the kits of
\* the lines of C; the multiplier of a kit is the converted quantity of a line
\* that makes it a kit of C, and of the line when only one does
C16_ResolverReturnsKits ==
    Started =>
        \A n \in 1 .. Len(products) :
            LET C == products[n].id
                result == _get_phantom_bom_components(db, C)
                lines == {l \in Range(db.mrp_bom_line) : l.product_id = C}
            IN  /\ DOMAIN result = UNION {KitsOfLine(db, l) : l \in lines}
                /\ \A k \in DOMAIN result : \E l \in lines :
                    k \in KitsOfLine(db, l) /\ result[k] = QtyInComponentUnit(db, l)
                /\ \A l \in lines :
                    (\A l2 \in lines \ {l} : KitsOfLine(db, l2) \cap KitsOfLine(db, l) = {})
                    => \A k \in KitsOfLine(db, l) : result[k] = QtyInComponentUnit(db, l)

\* the component is reported over a phantom BoM of a template of two variants
\* with a line in dozens, and a BoM that is not phantom: both variants are its
\* kits, with the line's quantity times 12, and the other BoM gives no kit
C16_Witness ==
    /\ Started
    /\ \E n \in 1 .. Len(products) : products[n].id = 1
    /\ \E b \in Range(db.mrp_bom) : b.type = "normal"
    /\ \E l \in Range(db.mrp_bom_line) :
        /\ l.product_id = 1 /\ l.product_uom_id = 2
        /\ KitsOfLine(db, l) = {3, 4}
        /\ DOMAIN _get_phantom_bom_components(db, 1) = {3, 4}
        /\ _get_phantom_bom_components(db, 1)[3] = 12 * l.product_qty
        /\ _get_phantom_bom_components(db, 1)[4] = 12 * l.product_qty

(***************************************************************************)
(* C17: the resolver keeps one multiplier per kit: when several phantom    *)
(* BoM lines of C reach one kit (two lines of a BoM, or a BoM of the       *)
(* variant and a BoM of its template), the multiplier of the line          *)
(* processed last replaces the earlier ones, and the kit's sales are       *)
(* attributed to C once, with that multiplier.                             *)
(***************************************************************************)
\* the positions, in the order bom_lines are processed, of the lines of C
\* that reach kit k
LinesReaching(d, C, k) ==
    {n \in 1 .. Len(d.mrp_bom_line) :
        /\ d.mrp_bom_line[n].product_id = C
        /\ k \in KitsOfLine(d, d.mrp_bom_line[n])}

\* the converted quantity of the last of them
LastMultiplier(d, C, k) ==
    LET last == CHOOSE n \in LinesReaching(d, C, k) :
                    \A o \in LinesReaching(d, C, k) : o <= n
    IN  QtyInComponentUnit(d, d.mrp_bom_line[last])

\* own sale_qty of C plus every kit's own sale_qty, once, times the last multiplier
SaleQtyWithLastMultiplier(d, C, month) ==
    LET kits == SetToSeq(KitsContaining(d, C))
    IN  SaleQuery(d, C, month.start, month.end).qty
        + SumSeq([n \in 1 .. Len(kits) |->
            SaleQuery(d, kits[n], month.start, month.end).qty
            * LastMultiplier(d, C, kits[n])])

\* C17: for every reported product, the multiplier of each kit is that of the
\* last line reaching it, and the sale_qty written counts each kit's sales
\* once, times that multiplier
C17_LastLineWins ==
    Started =>
        /\ \A n \in 1 .. Len(products) :
            LET result == _get_phantom_bom_components(db, products[n].id)
            IN  \A k \in DOMAIN result :
                    result[k] = LastMultiplier(db, products[n].id, k)
        /\ \A i \in MetricCells("sale_qty") :
            worksheet[i].value
                = SaleQtyWithLastMultiplier(db, ProductOfCell(i).id, MonthOfCell(i))

\* two lines of the component with different quantities reach a kit that was
\* sold: the sale_qty written is the component's own plus the kit's times the
\* later line's quantity
C17_Witness ==
    /\ Started
    /\ \E i \in MetricCells("sale_qty") :
        LET C == ProductOfCell(i).id
            own == SaleQuery(db, C, MonthOfCell(i).start, MonthOfCell(i).end).qty
        IN  \E k \in KitsContaining(db, C) :
            \E a, b \in LinesReaching(db, C, k) :
                LET kit == SaleQuery(db, k, MonthOfCell(i).start, MonthOfCell(i).end).qty
                    first == QtyInComponentUnit(db, db.mrp_bom_line[a])
                    last == QtyInComponentUnit(db, db.mrp_bom_line[b])
                IN  /\ a < b /\ first # last
                    /\ \A o \in LinesReaching(db, C, k) : o <= b
                    /\ kit # 0 /\ own # 0
                    /\ KitsContaining(db, C) = {k}
                    /\ worksheet[i].value = own + kit * last

=============================================================================
